---------------------------- MODULE Spec2Model ----------------------------
(***************************************************************************)
(* Model of the project/tag API of app/project: the two viewsets of        *)
(* views.py (TagViewSet over BaseProjectAttrViewSet, ProjectViewSet) and   *)
(* the three serializers of serializers.py, over the Tag and Project       *)
(* tables with their many-to-many relation.                                *)
(*                                                                         *)
(* A request is (user, action, pk, format, data).  `data` is a record that *)
(* holds exactly the keys the client sent; `format` is the encoding of the *)
(* body, because the field declarations of ProjectSerializer read an       *)
(* absent key differently in a multipart form and in a JSON document.      *)
(***************************************************************************)
EXTENDS Integers, Sequences, FiniteSets, TLC

VARIABLES
    tags,          \* Tag table: tags[id] = [user, name], ids 1..Len(tags)
    projects,      \* Project table: function id -> row, with the row's tag set
    nextProject,   \* next value of the Project primary-key sequence
    res,           \* the response to the last request handled
    txn            \* the update whose writes are in flight (<<>> when none)

vars == <<tags, projects, nextProject, res, txn>>

db == <<tags, projects, nextProject>>

----------------------------------------------------------------------------
(* Bounds of the model *)

MaxTags == 2

MaxProjects == 2

----------------------------------------------------------------------------
(* Identities and values *)

Users == {"alice", "bob"}

\* request.user of a request that carries no valid token
Anonymous == "anonymous"

TagNames == {"External", "Internal"}

TagIds == 1..MaxTags

ProjectIds == 1..MaxProjects

Formats == {"multipart", "json"}

\* fields = ('id', 'title', 'description', 'tags', 'price', 'link'), id read-only
WritableFields == {"title", "description", "tags", "price", "link"}

\* Project columns declared without blank=True / default (core.models)
RequiredFields == {"title", "description", "price"}

\* Project.link is declared blank=True: an optional text column, '' when unset
BlankLink == ""

Has(data, f) == f \in DOMAIN data

----------------------------------------------------------------------------
(* Strings ordered as order_by('-name') orders them *)

NameRank(n) == IF n = "External" THEN 1 ELSE 2

\* every order in which the rows of S can come back when the query orders
\* them by key descending; rows of equal key, and all rows of a query that
\* has no ORDER BY, come back in an order of the store's own
Orderings(S, key) ==
    { s \in [1..Cardinality(S) -> S] :
        /\ \A i, j \in 1..Cardinality(S) : i # j => s[i] # s[j]
        /\ \A i, j \in 1..Cardinality(S) : i < j => key[s[i]] >= key[s[j]] }


----------------------------------------------------------------------------
(* serializers.py *)

\* TagSerializer: fields = ('id', 'name')
TagSerializer(tagTable, id) == [id |-> id, name |-> tagTable[id].name]

\* ProjectSerializer: tags is a PrimaryKeyRelatedField(many=True), so a
\* project is written out with the primary keys of its tags.  The order of the
\* keys is the store's; the model keeps the collection as a set.
ProjectSerializer(tagTable, id, row) ==
    [id |-> id, title |-> row.title, description |-> row.description,
     tags |-> row.tags, price |-> row.price, link |-> row.link]

\* ProjectDetailSerializer: tags = TagSerializer(many=True, read_only=True)
ProjectDetailSerializer(tagTable, id, row) ==
    [id |-> id, title |-> row.title, description |-> row.description,
     tags |-> {TagSerializer(tagTable, t) : t \in row.tags},
     price |-> row.price, link |-> row.link]

Serialize(class, tagTable, id, row) ==
    IF class = "ProjectDetailSerializer"
    THEN ProjectDetailSerializer(tagTable, id, row)
    ELSE ProjectSerializer(tagTable, id, row)

\* tags = PrimaryKeyRelatedField(many=True, queryset=Tag.objects.all()):
\* the primary keys the field accepts are those of every row of the Tag table
TagFieldQueryset(tagTable, user) == 1..Len(tagTable)

\* validated_data of a serializer that reads every payload as a full one
ValidatedFieldsFull(data, format, partial) ==
    { f \in WritableFields :
        \/ Has(data, f)
        \/ format = "multipart" /\ f \in {"tags", "link"} }

\* The keys of validated_data.  A key the client sent is validated.  A key the
\* client did not send is skipped when the serializer is partial; otherwise a
\* multipart form reads an absent `tags` as the empty list and an absent
\* `link` as the blank string, while a JSON document leaves both absent.
ValidatedFields(data, format, partial) ==
    { f \in WritableFields :
        \/ Has(data, f)
        \/ ~partial /\ format = "multipart" /\ f \in {"tags", "link"} }

\* The fields is_valid() reports.  The three required columns, and `tags`
\* (declared without required=False), fail as required when they are absent
\* from a full payload; a `tags` key fails when one of its primary keys is
\* not in the field's queryset.
ValidationErrors(data, format, partial, tagTable, user) ==
    { f \in RequiredFields \cup {"tags"} :
        ~partial /\ f \notin ValidatedFields(data, format, partial) }
    \cup
    { f \in {"tags"} :
        Has(data, f) /\ data[f] \ TagFieldQueryset(tagTable, user) # {} }

\* serializer.validated_data
ValidatedData(data, format, partial) ==
    [ f \in ValidatedFields(data, format, partial) |->
        IF Has(data, f) THEN data[f]
        ELSE IF f = "tags" THEN {} ELSE BlankLink ]

\* ModelSerializer.update, first half: every validated column is assigned
\* and the row saved; the relation is held back
SaveFields(row, attrs) ==
    [ f \in DOMAIN row |->
        IF f # "tags" /\ Has(attrs, f) THEN attrs[f] ELSE row[f] ]

\* a relation replaced by a committed remove followed by a committed add
RemoveThenAdd(old, new) == <<old \cap new, new>>

\* ModelSerializer.update, second half: instance.tags.set(value).  The
\* related manager removes the old links and adds the new ones inside one
\* transaction, so the relation goes through these committed states.
TagsSetCommits(old, new) == <<new>>

Last(s) == s[Len(s)]

SetTags(row, attrs) ==
    IF Has(attrs, "tags")
    THEN [row EXCEPT !.tags = Last(TagsSetCommits(row.tags, attrs.tags))]
    ELSE row

\* ModelSerializer.create with the owner passed to save(): the row is
\* inserted with the validated columns, then the relation is set
NewProject(user, attrs) ==
    SetTags(
        SaveFields([user |-> user, title |-> "", description |-> "",
                    price |-> 0, link |-> BlankLink, tags |-> {}], attrs),
        attrs)


----------------------------------------------------------------------------
(* views.py *)

\* a permission class that lets every request through
AllowAny(user) == TRUE

\* permission_classes = (IsAuthenticated,) over TokenAuthentication
IsAuthenticated(user) == user # Anonymous

NoBody == <<>>

NoData == <<>>

\* what the client sent: the action routed to, the caller, the primary key of
\* the URL, the assigned_only parameter, the encoding and keys of the body
Request(action, user, pk, query, format, sent) ==
    [action |-> action, user |-> user, pk |-> pk, query |-> query,
     format |-> format, sent |-> sent]

\* a response, kept with the request it answers
Response(req, status, shape, data) ==
    [action |-> req.action, user |-> req.user, pk |-> req.pk,
     query |-> req.query, format |-> req.format, sent |-> req.sent,
     status |-> status, shape |-> shape, data |-> data]

\* an error or a 204: a status and no record
Bare(req, status) == Response(req, status, "", NoBody)

\* int(self.request.query_params.get('assigned_only', 0)), for the values
\* "0" and "1" of the parameter and for the request that does not carry it
IntParam(query) == IF query = "1" THEN 1 ELSE 0

\* bool(int(...))
AssignedOnly(query) == IntParam(query) # 0

\* the reverse side of Project.tags, which the filter of the tag list names
\* `recipe`: the projects that reference tag t
TagProjects(t) == { p \in DOMAIN projects : t \in projects[p].tags }

\* the same query without distinct(): one row per link of the join
AttrGetQuerysetJoined(user, query) ==
    LET joined == IF AssignedOnly(query)
                  THEN { r \in [tag : DOMAIN tags, via : DOMAIN projects] :
                            r.via \in TagProjects(r.tag) }
                  ELSE { [tag |-> t, via |-> 0] : t \in DOMAIN tags }
    IN  { r \in joined : tags[r.tag].user = user }

\* BaseProjectAttrViewSet.get_queryset, as the rows the query yields.  The
\* filter on the relation joins each tag to the projects that reference it,
\* one row per link; distinct() then keeps one row per tag.
AttrGetQueryset(user, query) ==
    LET joined == IF AssignedOnly(query)
                  THEN { r \in [tag : DOMAIN tags, via : DOMAIN projects] :
                            r.via \in TagProjects(r.tag) }
                  ELSE { [tag |-> t, via |-> 0] : t \in DOMAIN tags }
        owned  == { r \in joined : tags[r.tag].user = user }
    IN  { [tag |-> r.tag, via |-> 0] : r \in owned }

\* the projects of every identity
ProjectQuerysetAll(user) == DOMAIN projects

\* ProjectViewSet.get_queryset: self.queryset.filter(user=self.request.user)
ProjectGetQueryset(user) ==
    { p \in DOMAIN projects : projects[p].user = user }

\* the detail serializer for the list as well
DetailForList(action) ==
    IF action \in {"retrieve", "list"}
    THEN "ProjectDetailSerializer" ELSE "ProjectSerializer"

\* ProjectViewSet.get_serializer_class
GetSerializerClass(action) ==
    IF action = "retrieve" THEN "ProjectDetailSerializer" ELSE "ProjectSerializer"

\* the table with row `id` inserted or replaced
Put(table, id, row) ==
    [ i \in DOMAIN table \cup {id} |-> IF i = id THEN row ELSE table[i] ]

\* the table without row `id` (the links of the row go with it)
Drop(table, id) == [ i \in DOMAIN table \ {id} |-> table[i] ]

\* GET /tags/?assigned_only=query
TagList(user, query) ==
    LET req == Request("tag_list", user, 0, query, "", NoData)
    IN  /\ IF ~IsAuthenticated(user)
           THEN res' = Bare(req, 401)
           ELSE \E order \in Orderings(AttrGetQueryset(user, query),
                                       [ r \in AttrGetQueryset(user, query) |->
                                           NameRank(tags[r.tag].name) ]) :
                  res' = Response(req, 200, "TagSerializer",
                                  [ i \in DOMAIN order |->
                                      TagSerializer(tags, order[i].tag) ])
        /\ UNCHANGED <<db, txn>>

\* POST /tags/ : BaseProjectAttrViewSet.perform_create saves with the caller
TagCreate(user, data) ==
    LET req == Request("tag_create", user, 0, "", "multipart", data)
    IN  /\ IF ~IsAuthenticated(user)
           THEN /\ res' = Bare(req, 401)
                /\ UNCHANGED db
           ELSE IF ~Has(data, "name")
           THEN /\ res' = Bare(req, 400)
                /\ UNCHANGED db
           ELSE /\ Len(tags) < MaxTags
                /\ tags' = Append(tags, [user |-> user, name |-> data.name])
                /\ res' = Response(req, 201, "TagSerializer",
                                   << TagSerializer(tags', Len(tags')) >>)
                /\ UNCHANGED <<projects, nextProject>>
        /\ UNCHANGED txn

\* GET /projects/
ProjectList(user) ==
    LET req   == Request("list", user, 0, "", "", NoData)
        class == GetSerializerClass("list")
    IN  /\ IF ~IsAuthenticated(user)
           THEN res' = Bare(req, 401)
           ELSE \E order \in Orderings(ProjectGetQueryset(user),
                                       [ p \in ProjectGetQueryset(user) |-> 0 ]) :
                  res' = Response(req, 200, class,
                                  [ i \in DOMAIN order |->
                                      Serialize(class, tags, order[i],
                                                projects[order[i]]) ])
        /\ UNCHANGED <<db, txn>>

\* GET /projects/pk/
ProjectRetrieve(user, pk) ==
    LET req   == Request("retrieve", user, pk, "", "", NoData)
        class == GetSerializerClass("retrieve")
    IN  /\ IF ~IsAuthenticated(user)
           THEN res' = Bare(req, 401)
           ELSE IF pk \notin ProjectGetQueryset(user)
           THEN res' = Bare(req, 404)
           ELSE res' = Response(req, 200, class,
                                << Serialize(class, tags, pk, projects[pk]) >>)
        /\ UNCHANGED <<db, txn>>

\* POST /projects/ : ProjectViewSet.perform_create saves with the caller
ProjectCreate(user, format, data) ==
    LET req   == Request("create", user, 0, "", format, data)
        class == GetSerializerClass("create")
    IN  /\ IF ~IsAuthenticated(user)
           THEN /\ res' = Bare(req, 401)
                /\ UNCHANGED db
           ELSE IF ValidationErrors(data, format, FALSE, tags, user) # {}
           THEN /\ res' = Bare(req, 400)
                /\ UNCHANGED db
           ELSE /\ nextProject <= MaxProjects
                /\ projects' = Put(projects, nextProject,
                                   NewProject(user, ValidatedData(data, format, FALSE)))
                /\ nextProject' = nextProject + 1
                /\ res' = Response(req, 201, class,
                                   << Serialize(class, tags, nextProject,
                                                projects'[nextProject]) >>)
                /\ UNCHANGED tags
        /\ UNCHANGED txn

\* PUT /projects/pk/ (partial = FALSE) and PATCH /projects/pk/ (partial = TRUE)
Update(action, partial, user, pk, format, data) ==
    LET req   == Request(action, user, pk, "", format, data)
        class == GetSerializerClass(action)
    IN  /\ IF ~IsAuthenticated(user)
           THEN /\ res' = Bare(req, 401)
                /\ UNCHANGED db
           ELSE IF pk \notin ProjectGetQueryset(user)
           THEN /\ res' = Bare(req, 404)
                /\ UNCHANGED db
           ELSE IF ValidationErrors(data, format, partial, tags, user) # {}
           THEN /\ res' = Bare(req, 400)
                /\ UNCHANGED db
           ELSE LET attrs == ValidatedData(data, format, partial)
                IN  /\ projects' = Put(projects, pk,
                                       SetTags(SaveFields(projects[pk], attrs), attrs))
                    /\ res' = Response(req, 200, class,
                                       << Serialize(class, tags, pk, projects'[pk]) >>)
                    /\ UNCHANGED <<tags, nextProject>>
        /\ UNCHANGED txn

ProjectUpdate(user, pk, format, data) ==
    Update("update", FALSE, user, pk, format, data)

ProjectPartialUpdate(user, pk, format, data) ==
    Update("partial_update", TRUE, user, pk, format, data)

\* DELETE /projects/pk/
ProjectDestroy(user, pk) ==
    LET req == Request("destroy", user, pk, "", "", NoData)
    IN  /\ IF ~IsAuthenticated(user)
           THEN /\ res' = Bare(req, 401)
                /\ UNCHANGED db
           ELSE IF pk \notin ProjectGetQueryset(user)
           THEN /\ res' = Bare(req, 404)
                /\ UNCHANGED db
           ELSE /\ projects' = Drop(projects, pk)
                /\ res' = Bare(req, 204)
                /\ UNCHANGED <<tags, nextProject>>
        /\ UNCHANGED txn

----------------------------------------------------------------------------
(* Requests *)

Merge(a, b) ==
    [ f \in DOMAIN a \cup DOMAIN b |-> IF f \in DOMAIN b THEN b[f] ELSE a[f] ]

\* the payloads of tests/test_project_api.py
Sample ==
    [title |-> "Sample project", description |-> "This is a sample project",
     price |-> 5]

Massive ==
    [title |-> "Massive RPG",
     description |-> "Massive RPG fantasy themed developed on FrostBite engine",
     price |-> 5000]

NoTitle == [description |-> "This is a sample project", price |-> 5]

TagLists == { [tags |-> T] : T \in SUBSET TagIds }

\* a request body: the encoding and the keys sent.  A multipart form has no
\* way to send an empty list, so `tags: []` is sent as JSON; a list with
\* elements reads the same in both encodings and is sent as a form.
Body(format, data) == [format |-> format, data |-> data]

Bodies(base) ==
    { Body("multipart", base), Body("json", base) }
    \cup { Body(IF t.tags = {} THEN "json" ELSE "multipart", Merge(base, t)) :
             t \in TagLists }

CreateBodies == Bodies(Sample) \cup {Body("multipart", NoTitle)}

UpdateBodies == Bodies(Massive)

PartialBodies == Bodies(NoData) \ {Body("json", NoData)}

TagData == { [name |-> "Internal"], [colour |-> "red"] }

Queries == {"absent", "0", "1"}

----------------------------------------------------------------------------
(* Every request handled in one step *)

Init ==
    /\ tags = <<>>
    /\ projects = <<>>
    /\ nextProject = 1
    /\ res = Bare(Request("", "", 0, "", "", NoData), 0)
    /\ txn = <<>>

\* a request without a valid token, to each endpoint
Unauthenticated ==
    \/ \E q \in Queries : TagList(Anonymous, q)
    \/ TagCreate(Anonymous, [name |-> "Internal"])
    \/ ProjectList(Anonymous)
    \/ \E pk \in ProjectIds : ProjectRetrieve(Anonymous, pk)
    \/ ProjectCreate(Anonymous, "multipart", Sample)
    \/ \E pk \in ProjectIds : ProjectUpdate(Anonymous, pk, "multipart", Massive)
    \/ \E pk \in ProjectIds :
          ProjectPartialUpdate(Anonymous, pk, "multipart", [title |-> "Massive RPG"])
    \/ \E pk \in ProjectIds : ProjectDestroy(Anonymous, pk)

Next ==
    \/ \E u \in Users, q \in Queries : TagList(u, q)
    \/ \E u \in Users, d \in TagData : TagCreate(u, d)
    \/ \E u \in Users : ProjectList(u)
    \/ \E u \in Users, pk \in ProjectIds : ProjectRetrieve(u, pk)
    \/ \E u \in Users, b \in CreateBodies : ProjectCreate(u, b.format, b.data)
    \/ \E u \in Users, pk \in ProjectIds, b \in UpdateBodies :
          /\ IF pk \in ProjectGetQueryset(u) THEN TRUE ELSE b = Body("multipart", Massive)
          /\ ProjectUpdate(u, pk, b.format, b.data)
    \/ \E u \in Users, pk \in ProjectIds, b \in PartialBodies :
          /\ IF pk \in ProjectGetQueryset(u) THEN TRUE
             ELSE b = Body("multipart", [tags |-> {1}])
          /\ ProjectPartialUpdate(u, pk, b.format, b.data)
    \/ \E u \in Users, pk \in ProjectIds : ProjectDestroy(u, pk)
    \/ Unauthenticated

Spec == Init /\ [][Next]_vars

----------------------------------------------------------------------------
(* Properties of the one-step specification *)

ItemActions == {"retrieve", "update", "partial_update", "destroy"}

ProjectActions == ItemActions \cup {"list", "create"}

Ok(r) == r.status \in {200, 201}

\* the ids of the records of a response body, as a set
BodyIds(r) == { r.data[i].id : i \in DOMAIN r.data }

\* C1: ownership isolation.  A request of an identity that does not own a
\* project leaves the project as it was; addressed to the project it is
\* answered 404, and a list answered to that identity does not hold it.
C1_OwnershipIsolation ==
    [][ \A pk \in DOMAIN projects :
          (res'.user \in Users /\ res'.user # projects[pk].user) =>
             /\ pk \in DOMAIN projects'
             /\ projects'[pk] = projects[pk]
             /\ (res'.action \in ItemActions /\ res'.pk = pk) => res'.status = 404
             /\ res'.action = "list" => pk \notin BodyIds(res') ]_vars

\* C1 witness: a partial update by the other identity was refused with 404
\* on a project that carries tags
C1_Witness ==
    /\ res.action = "partial_update"
    /\ res.status = 404
    /\ res.pk \in DOMAIN projects
    /\ res.user \in Users
    /\ projects[res.pk].user # res.user
    /\ projects[res.pk].tags # {}

\* C2: in every reachable state the tags of a project are owned by the owner
\* of the project (a write that names another identity's tag is refused)
C2_TagsOwnedByProjectOwner ==
    \A pk \in DOMAIN projects :
        \A t \in projects[pk].tags : tags[t].user = projects[pk].user

\* a full payload that names the three required columns and no `tags`
OmitsTags(sent) == RequiredFields \subseteq DOMAIN sent /\ ~Has(sent, "tags")

\* C3: a PUT by the owner that supplies title, description and price and no
\* `tags` succeeds, stores the three values and leaves the tag set empty
C3_PutWithoutTagsEmptiesTags ==
    [][ ( /\ res'.action = "update"
          /\ res'.user \in Users
          /\ res'.pk \in ProjectGetQueryset(res'.user)
          /\ OmitsTags(res'.sent) ) =>
             /\ res'.status = 200
             /\ projects'[res'.pk].tags = {}
             /\ \A f \in RequiredFields : projects'[res'.pk][f] = res'.sent[f] ]_vars

\* C5: among the answers that carry a project, the detail shape (tags as
\* {id, name} records) is that of retrieve and of no other action; the others
\* carry the tags as primary keys
C5_ShapeByAction ==
    (res.action \in ProjectActions /\ Ok(res)) =>
       /\ (res.shape = "ProjectDetailSerializer") <=> (res.action = "retrieve")
       /\ res.shape \in {"ProjectDetailSerializer", "ProjectSerializer"}
       /\ \A i \in DOMAIN res.data :
            LET id == res.data[i].id
            IN  IF res.action = "retrieve"
                THEN res.data[i].tags =
                        { [id |-> t, name |-> tags[t].name] : t \in projects[id].tags }
                ELSE res.data[i].tags = projects[id].tags

\* C5 witness: a retrieve answered with embedded tags
C5_Witness ==
    /\ res.action = "retrieve"
    /\ res.status = 200
    /\ res.data[1].tags # {}

\* the tags of a body, [tags |-> T] or none
GivenTags(data) == IF Has(data, "tags") THEN data.tags ELSE {}

\* C6: a create whose `tags` are the caller's own (none when the key is
\* absent) is answered 201, the project is the caller's, and the caller's
\* retrieve of it shows exactly those tags
C6_CreateRetrieveRoundTrip ==
    [][ ( /\ res'.action = "create"
          /\ res'.user \in Users
          /\ RequiredFields \subseteq DOMAIN res'.sent
          /\ \A t \in GivenTags(res'.sent) :
                t \in DOMAIN tags /\ tags[t].user = res'.user ) =>
             /\ res'.status = 201
             /\ res'.data[1].id \in DOMAIN projects' \ DOMAIN projects
             /\ projects'[res'.data[1].id].user = res'.user
             /\ LET id    == res'.data[1].id
                    shown == ProjectDetailSerializer(tags', id, projects'[id])
                IN  { t.id : t \in shown.tags } = GivenTags(res'.sent) ]_vars

C8_ListDescendingById ==
    (res.action = "list" /\ res.status = 200) =>
        \A i, j \in DOMAIN res.data : i < j => res.data[i].id > res.data[j].id

\* C9: a request without a valid token is answered 401 with no record and
\* changes no table
C9_Unauthenticated ==
    [][ res'.user = Anonymous =>
          /\ res'.status = 401
          /\ res'.data = NoBody
          /\ UNCHANGED db ]_vars

\* C9 witness: a create without a token was refused while projects exist
C9_Witness ==
    /\ res.user = Anonymous
    /\ res.action = "create"
    /\ res.status = 401
    /\ DOMAIN projects # {}


----------------------------------------------------------------------------
(* One owner writing every column: the requests of the field checks *)

Link == "https://example.com/project"

\* each writable column alone, the relation alone, and a pair of them
FieldPatches ==
    { [title |-> Massive.title], [description |-> Massive.description],
      [price |-> Massive.price], [link |-> Link] }
    \cup { t \in TagLists : t.tags # {} }
    \cup { [title |-> Massive.title, tags |-> {1}] }

PatchBodies ==
    { Body(IF Has(d, "tags") THEN "multipart" ELSE "json", d) : d \in FieldPatches }
    \cup { Body("multipart", [title |-> Massive.title]),
           Body("json", [tags |-> {}]) }

FullBodies ==
    { Body("multipart", Massive), Body("json", Massive),
      Body("multipart", Merge(Massive, [link |-> Link])),
      Body("multipart", Merge(Massive, [tags |-> {1}])) }

NextFields ==
    \/ TagCreate("alice", [name |-> "Internal"])
    \/ ProjectCreate("alice", "multipart", Sample)
    \/ \E pk \in ProjectIds, b \in FullBodies :
          ProjectUpdate("alice", pk, b.format, b.data)
    \/ \E pk \in ProjectIds, b \in PatchBodies :
          ProjectPartialUpdate("alice", pk, b.format, b.data)

SpecFields == Init /\ [][NextFields]_vars

\* C4: a PATCH by the owner writes the columns of the payload and no other:
\* a supplied `tags` becomes the tag set, every column the payload does not
\* name keeps its value, and no other project changes
C4_PatchChangesOnlySupplied ==
    [][ ( /\ res'.action = "partial_update"
          /\ res'.user \in Users
          /\ res'.pk \in ProjectGetQueryset(res'.user) ) =>
             /\ GivenTags(res'.sent) \subseteq DOMAIN tags => res'.status = 200
             /\ res'.status # 200 => projects' = projects
             /\ res'.status = 200 =>
                  /\ DOMAIN projects' = DOMAIN projects
                  /\ \A q \in DOMAIN projects \ {res'.pk} : projects'[q] = projects[q]
                  /\ \A f \in DOMAIN projects[res'.pk] :
                        projects'[res'.pk][f] =
                           IF Has(res'.sent, f) THEN res'.sent[f]
                           ELSE projects[res'.pk][f]
       ]_vars

\* C4 witness: after an accepted PATCH the project holds the patched link and
\* tag set beside the title it was created with and the description of an
\* earlier patch
C4_Witness ==
    /\ res.action = "partial_update"
    /\ res.status = 200
    /\ projects[res.pk].title = Sample.title
    /\ projects[res.pk].description = Massive.description
    /\ projects[res.pk].price = Sample.price
    /\ projects[res.pk].link = Link
    /\ projects[res.pk].tags = {2}


----------------------------------------------------------------------------
(* An update taken apart into the writes it commits, with readers between *)

\* the request passed authentication, get_object() and is_valid(); its
\* writes are still to come
UpdateBegin(action, partial, user, pk, format, data) ==
    /\ txn = <<>>
    /\ IsAuthenticated(user)
    /\ pk \in ProjectGetQueryset(user)
    /\ ValidationErrors(data, format, partial, tags, user) = {}
    /\ txn' = << [req   |-> Request(action, user, pk, "", format, data),
                  attrs |-> ValidatedData(data, format, partial),
                  old   |-> projects[pk].tags,
                  stage |-> "save",
                  commits |-> <<>>] >>
    /\ UNCHANGED <<db, res>>

\* instance.save(): the columns are committed
UpdateSave ==
    /\ txn # <<>>
    /\ txn[1].stage = "save"
    /\ LET t == txn[1]
       IN  /\ projects' = Put(projects, t.req.pk,
                              SaveFields(projects[t.req.pk], t.attrs))
           /\ txn' = << [t EXCEPT
                           !.stage = "m2m",
                           !.commits =
                               IF Has(t.attrs, "tags")
                               THEN TagsSetCommits(projects[t.req.pk].tags,
                                                   t.attrs.tags)
                               ELSE <<>>] >>
    /\ UNCHANGED <<tags, nextProject, res>>

\* instance.tags.set(value): the next committed state of the relation
UpdateSetTags ==
    /\ txn # <<>>
    /\ txn[1].stage = "m2m"
    /\ txn[1].commits # <<>>
    /\ LET t == txn[1]
       IN  /\ projects' = [projects EXCEPT ![t.req.pk].tags = Head(t.commits)]
           /\ txn' = << [t EXCEPT !.commits = Tail(t.commits)] >>
    /\ UNCHANGED <<tags, nextProject, res>>

\* Response(serializer.data)
UpdateRespond ==
    /\ txn # <<>>
    /\ txn[1].stage = "m2m"
    /\ txn[1].commits = <<>>
    /\ LET t     == txn[1]
           class == GetSerializerClass(t.req.action)
       IN  res' = Response(t.req, 200, class,
                           << Serialize(class, tags, t.req.pk,
                                        projects[t.req.pk]) >>)
    /\ txn' = <<>>
    /\ UNCHANGED db

TagBodies == { Body("multipart", t) : t \in TagLists \ {[tags |-> {}]} }

NextConc ==
    \/ \E n \in TagNames : TagCreate("alice", [name |-> n])
    \/ \E q \in {"absent", "1"} : TagList("alice", q)
    \/ \E b \in TagBodies : ProjectCreate("alice", b.format, Merge(Sample, b.data))
    \/ \E pk \in ProjectIds, b \in TagBodies :
          UpdateBegin("update", FALSE, "alice", pk, b.format, Merge(Massive, b.data))
    \/ \E pk \in ProjectIds, b \in TagBodies \cup {Body("json", [tags |-> {}])} :
          UpdateBegin("partial_update", TRUE, "alice", pk, b.format, b.data)
    \/ UpdateSave
    \/ UpdateSetTags
    \/ UpdateRespond
    \/ \E pk \in ProjectIds : ProjectRetrieve("alice", pk)
    \/ ProjectList("alice")

SpecConc == Init /\ [][NextConc]_vars

\* the primary keys of the tags of record i of a response body
ShownTags(r, i) ==
    IF r.shape = "ProjectDetailSerializer"
    THEN { t.id : t \in r.data[i].tags }
    ELSE r.data[i].tags

=============================================================================
